---- MODULE Spec2Model ----
(***************************************************************************)
(* A model of two parts of sebak:                                          *)
(*                                                                         *)
(*   - ISAACStateManager (lib/node/runner/isaac_state_manager.go): the     *)
(*     event loop started by Start(), the goroutines that TransitISAACState*)
(*     and Stop() detach, the timer of the loop and the expiration ballots.*)
(*   - BlockOperation (lib/block): Save / Get / Exists over the LevelDB    *)
(*     backend with its primary key and its two index keys.                *)
(*                                                                         *)
(* Durations are in milliseconds.  Strings that end up in storage keys are *)
(* sequences of byte values.                                               *)
(***************************************************************************)
EXTENDS Integers, Sequences, FiniteSets, Bags, TLC

\* ------------------------------------------------------------------ bounds

\* Heights and rounds the model explores: 0..MaxHeight, 0..MaxRound.
MaxHeight == 1
MaxRound == 1
\* Sender goroutines of TransitISAACState blocked on stateTransit at one time.
MaxInFlight == 2
\* Stop() goroutines blocked on the stop channel at one time.
MaxStops == 1
\* Height of the latest confirmed block the consensus reports: 1..MaxBlockHeight.
MaxBlockHeight == 2

\* --------------------------------------------------------------- constants

\* epsilon := 50 * time.Millisecond
Epsilon == 50
\* the delta SetBlockTimeBuffer passes: 1*time.Second
Delta == 1000
\* blockTimeBuffer: 2 * time.Second in NewISAACStateManager
InitialBlockTimeBuffer == 2000
\* genesisBlockHeight := uint64(1)
GenesisBlockHeight == 1
\* sm.Conf.BlockTime, the goal of the pacer
BlockTime == 5000

\* time.Now().Sub(sm.genesis) and time.Now().Sub(ballotProposedTime) as the
\* event loop may observe them.
SinceGenesisSamples == {5000}
UntilNowSamples == {1000}

\* ------------------------------------------------------------ ISAAC state

\* ballot.State: StateNONE, StateINIT, StateSIGN, StateACCEPT, StateALLCONFIRM
BallotStates == {"NONE", "INIT", "SIGN", "ACCEPT", "ALLCONFIRM"}

\* The numeric value of a ballot.State (iota order).
Ord(bs) ==
    CASE bs = "NONE" -> 0
      [] bs = "INIT" -> 1
      [] bs = "SIGN" -> 2
      [] bs = "ACCEPT" -> 3
      [] bs = "ALLCONFIRM" -> 4

\* ballot.State.Next(): the following state; past StateALLCONFIRM it is StateNONE.
BallotStateNext(bs) ==
    CASE bs = "NONE" -> "INIT"
      [] bs = "INIT" -> "SIGN"
      [] bs = "SIGN" -> "ACCEPT"
      [] bs = "ACCEPT" -> "ALLCONFIRM"
      [] bs = "ALLCONFIRM" -> "NONE"

ISAACState(h, r, bs) == [Height |-> h, Round |-> r, BallotState |-> bs]

\* consensus.ISAACState.IsLater: target is after current, by Height, then
\* Round, then BallotState.
IsLater(current, target) ==
    IF current.Height # target.Height THEN current.Height < target.Height
    ELSE IF current.Round # target.Round THEN current.Round < target.Round
    ELSE Ord(current.BallotState) < Ord(target.BallotState)

\* The targets callers of TransitISAACState pass within the bounds.  An
\* ALLCONFIRM at MaxHeight would make NextHeight leave the bounds.
Targets ==
    { ISAACState(h, r, bs) : h \in 0..MaxHeight, r \in 0..MaxRound,
                             bs \in {"INIT", "SIGN", "ACCEPT", "ALLCONFIRM"} }

ExternalTargets ==
    { t \in Targets : t.BallotState = "ALLCONFIRM" => t.Height < MaxHeight }

\* ------------------------------------------------------------------ pacer

\* Go's integer division truncates toward zero.
GoDiv(a, b) ==
    IF (a >= 0) = (b > 0) THEN (IF a >= 0 THEN a ELSE -a) \div (IF b > 0 THEN b ELSE -b)
    ELSE -((IF a >= 0 THEN a ELSE -a) \div (IF b > 0 THEN b ELSE -b))

\* calculateAverageBlockTime, with sinceGenesis = time.Now().Sub(genesis).
\* height is a uint64: blockHeight - 1 wraps to 2^64 - 1 at blockHeight 0,
\* which is not 0 and which time.Duration(height), an int64, reads as -1.  For
\* the small heights of the model the int64 reading of the difference is
\* blockHeight - genesisBlockHeight itself.
calculateAverageBlockTime(sinceGenesis, blockHeight) ==
    LET height == blockHeight - GenesisBlockHeight
    IN  IF height = 0 THEN sinceGenesis ELSE GoDiv(sinceGenesis, height)

\* calculateBlockTimeBuffer with the comparisons against epsilon made
\* inclusive.
calculateBlockTimeBufferInclusive(goal, average, untilNow, delta) ==
    LET blockTimeBuffer ==
            IF average >= goal
            THEN IF average - goal <= Epsilon THEN goal - untilNow
                 ELSE goal - delta - untilNow
            ELSE IF goal - average <= Epsilon THEN goal - untilNow
                 ELSE goal + delta - untilNow
    IN  IF blockTimeBuffer < 0 THEN 0 ELSE blockTimeBuffer

calculateBlockTimeBuffer(goal, average, untilNow, delta) ==
    LET blockTimeBuffer ==
            IF average >= goal
            THEN IF average - goal < Epsilon THEN goal - untilNow
                 ELSE goal - delta - untilNow
            ELSE IF goal - average < Epsilon THEN goal - untilNow
                 ELSE goal + delta - untilNow
    IN  IF blockTimeBuffer < 0 THEN 0 ELSE blockTimeBuffer

\* ------------------------------------------------------------------ state

VARIABLES
    state,            \* sm.state
    stateTransit,     \* bag of targets whose sender goroutine waits on sm.stateTransit
    stop,             \* number of Stop() goroutines waiting on sm.stop
    timer,            \* what the loop's timer is armed with, "off" once it has fired
    timerC,           \* whether timer.C holds a tick
    loop,             \* where the goroutine of Start() is: "select", "sleep", "returned"
    sleeping,         \* the target proposeOrWait holds during time.Sleep
    blockTimeBuffer,  \* sm.blockTimeBuffer
    latestHeight,     \* sm.nr.Consensus().LatestBlock().Height
    requested,        \* history: the IncreaseRound/NextHeight request the loop made last, until
                      \* it adopts a state or advances the ballot state on a timeout
    last              \* history: the last step taken and what it did


VARIABLES
    storage,    \* the LevelDB backend: a set of [key, value] entries
    objs,       \* the BlockOperation values in memory, in order of creation
    issued,     \* the unique ids GetUniqueIDFromUUID has returned
    succeeded,  \* history: the indexes in objs of the values whose Save returned nil
    result      \* history: the last call on the block operations and what it did

VARIABLES
    input,      \* the arguments of a call of one of the pacer's functions
    output      \* what the call returned, once it has

VARIABLES
    mutex,      \* sm.RWMutex: the goroutine holding it for writing, those holding
                \* it for reading
    running     \* for each goroutine, the access to a field of sm it is making
                \* and how far it is

mvars == <<state, stateTransit, stop, timer, timerC, loop, sleeping,
           blockTimeBuffer, latestHeight, requested, last>>
svars == <<storage, objs, issued, succeeded, result>>
pvars == <<input, output>>
lvars == <<mutex, running>>
vars == <<mvars, svars, pvars, lvars>>

\* The goroutine of Start() and the goroutines that call the manager.
Goroutines == {"loop", "caller1", "caller2"}

TimerDurations ==
    {"Hour", "TimeoutINIT", "TimeoutSIGN", "TimeoutACCEPT", "BufferPlusTimeoutINIT"}

\* A step's record.  Sets hold at most one element.
Event(op) ==
    [op |-> op, target |-> {}, later |-> FALSE, sent |-> FALSE, signal |-> {},
     buffer |-> FALSE, ballot |-> {}, propose |-> {}]

\* A call on the block operations: what it returned, how many times it asked
\* the backend for a key, the keys it wrote, the events it triggered, the
\* prefix argument of an iterator and the hashes of the operations it
\* yielded, in order.
Call(op, obj, ret) ==
    [op |-> op, obj |-> obj, ret |-> ret, has |-> 0, written |-> {}, events |-> {},
     arg |-> <<>>, items |-> <<>>]

Init ==
    /\ state = ISAACState(0, 0, "INIT")
    /\ stateTransit = EmptyBag
    /\ stop = 0
    /\ timer = "Hour"
    /\ timerC = FALSE
    /\ loop = "select"
    /\ sleeping = {}
    /\ blockTimeBuffer = InitialBlockTimeBuffer
    /\ latestHeight = GenesisBlockHeight
    /\ requested = {}
    /\ last = Event("Init")
    /\ storage = {}
    /\ objs = <<>>
    /\ issued = {}
    /\ succeeded = {}
    /\ result = Call("Init", 0, "nil")
    /\ input = [f |-> "none"]
    /\ output = {}
    /\ mutex = [writer |-> {}, readers |-> {}]
    /\ running = [g \in Goroutines |-> [op |-> "none", pc |-> "idle"]]

\* ------------------------------------------------------------- operations

\* TransitISAACState without its gate: every target is sent.
TransitSendsAlways(current, target) == TRUE

\* What TransitISAACState leaves on the channel: the target, from a detached
\* goroutine, only if current.IsLater(target) for the state read under RLock.
TransitSends(current, target) == IsLater(current, target)

Send(target) == stateTransit (+) SetToBag({target})

\* TransitISAACState called by another goroutine (a received ballot).
TransitISAACState(target) ==
    /\ BagCardinality(stateTransit) < MaxInFlight
    /\ stateTransit' = IF TransitSends(state, target) THEN Send(target) ELSE stateTransit
    /\ last' = [Event("Transit") EXCEPT !.later = IsLater(state, target),
                                        !.sent = TransitSends(state, target)]
    /\ UNCHANGED <<state, stop, timer, timerC, loop, sleeping, blockTimeBuffer,
                   latestHeight, requested,
                   svars, pvars, lvars>>

\* Stop(): a goroutine sends on sm.stop; the caller goes on.
Stop ==
    /\ stop < MaxStops
    /\ stop' = stop + 1
    /\ last' = Event("StopCall")
    /\ UNCHANGED <<state, stateTransit, timer, timerC, loop, sleeping,
                   blockTimeBuffer, latestHeight, requested,
                   svars, pvars, lvars>>

\* The runtime fires the armed timer: a tick goes to timer.C (capacity 1).
TimerFires ==
    /\ timer # "off"
    /\ timer' = "off"
    /\ timerC' = TRUE
    /\ last' = Event("Fire")
    /\ UNCHANGED <<state, stateTransit, stop, loop, sleeping, blockTimeBuffer,
                   latestHeight, requested,
                   svars, pvars, lvars>>

\* The consensus confirms a block: LatestBlock() moves on.
ConfirmBlock ==
    /\ latestHeight < MaxBlockHeight
    /\ latestHeight' = latestHeight + 1
    /\ last' = Event("Confirm")
    /\ UNCHANGED <<state, stateTransit, stop, timer, timerC, loop, sleeping,
                   blockTimeBuffer, requested,
                   svars, pvars, lvars>>

\* SetBlockTimeBuffer: the values sm.blockTimeBuffer may get.
SetBlockTimeBuffer ==
    { calculateBlockTimeBuffer(BlockTime,
                               calculateAverageBlockTime(g, latestHeight), u, Delta) :
        g \in SinceGenesisSamples, u \in UntilNowSamples }

\* resetTimer with the timeouts of SIGN and ACCEPT taken for one another.
resetTimerSwapped(bs) ==
    CASE bs = "INIT" -> "TimeoutINIT"
      [] bs = "SIGN" -> "TimeoutACCEPT"
      [] bs = "ACCEPT" -> "TimeoutSIGN"
      [] OTHER -> timer

\* resetTimer stopping the timer in ACCEPT instead of arming it.
resetTimerStopsInACCEPT(bs) ==
    CASE bs = "INIT" -> "TimeoutINIT"
      [] bs = "SIGN" -> "TimeoutSIGN"
      [] bs = "ACCEPT" -> "off"
      [] OTHER -> timer

\* resetTimer: the timeout of the ballot state; no case for the others.
resetTimer(bs) ==
    CASE bs = "INIT" -> "TimeoutINIT"
      [] bs = "SIGN" -> "TimeoutSIGN"
      [] bs = "ACCEPT" -> "TimeoutACCEPT"
      [] OTHER -> timer

\* IncreaseRound without the increment.
IncreaseRoundSameRound(s) == ISAACState(s.Height, s.Round, "INIT")

\* IncreaseRound and NextHeight: the target each passes to TransitISAACState.
IncreaseRound(s) == ISAACState(s.Height, s.Round + 1, "INIT")

NextHeight(s) == ISAACState(s.Height + 1, 0, "INIT")

\* case <-timer.C with sm.State().BallotState == ballot.StateACCEPT:
\* SetBlockTimeBuffer, IncreaseRound, break.
TimeoutACCEPT ==
    /\ loop = "select"
    /\ timerC
    /\ state.BallotState = "ACCEPT"
    /\ state.Round < MaxRound
    /\ BagCardinality(stateTransit) < MaxInFlight
    /\ LET target == IncreaseRound(state)
       IN  /\ timerC' = FALSE
           /\ blockTimeBuffer' \in SetBlockTimeBuffer
           /\ stateTransit' = IF TransitSends(state, target) THEN Send(target)
                              ELSE stateTransit
           /\ requested' = {[by |-> "IncreaseRound", target |-> target]}
           /\ last' = [Event("Timeout") EXCEPT !.buffer = TRUE, !.target = {target},
                                               !.sent = TransitSends(state, target)]
    /\ UNCHANGED <<state, stop, timer, loop, sleeping, latestHeight,
                   svars, pvars, lvars>>

\* broadcastExpiredBallot(state), in its own goroutine: the ballot it hands to
\* ConnectionManager().Broadcast.  The goroutine reads its argument, a copy of
\* the state, and LatestBlock(); it is taken at the step that starts it.
ExpiredBallot(s) ==
    [Round |-> s.Round, Height |-> latestHeight,
     VoteState |-> BallotStateNext(s.BallotState), Vote |-> "EXP"]

\* case <-timer.C otherwise: go broadcastExpiredBallot(state), setBallotState
\* (Next()), resetTimer, transitSignal.
TimeoutExpire ==
    /\ loop = "select"
    /\ timerC
    /\ state.BallotState # "ACCEPT"
    /\ LET next == [state EXCEPT !.BallotState = BallotStateNext(state.BallotState)]
       IN  /\ timerC' = FALSE
           /\ state' = next
           /\ timer' = resetTimer(next.BallotState)
           /\ requested' = {}
           /\ last' = [Event("Timeout") EXCEPT !.signal = {next}, !.ballot = {ExpiredBallot(state)}]
    /\ UNCHANGED <<stateTransit, stop, loop, sleeping, blockTimeBuffer, latestHeight,
                   svars, pvars, lvars>>

\* case state := <-sm.stateTransit with StateINIT: proposeOrWait.  The local
\* node is the proposer: timer.Reset(1h) and time.Sleep(sm.blockTimeBuffer).
ProposeSleep(t) ==
    /\ loop = "select"
    /\ BagIn(t, stateTransit)
    /\ t.BallotState = "INIT"
    /\ stateTransit' = stateTransit (-) SetToBag({t})
    /\ timer' = "Hour"
    /\ loop' = "sleep"
    /\ sleeping' = {t}
    /\ last' = [Event("Sleep") EXCEPT !.target = {t}]
    /\ UNCHANGED <<state, stop, timerC, blockTimeBuffer, latestHeight,
                   requested,
                   svars, pvars, lvars>>

\* proposeOrWait returning at the error of proposeNewBallot: the timer stays
\* at the hour it was reset to and the state is not adopted.
ProposeWakeReturnsOnError(t, ok) ==
    /\ loop = "sleep"
    /\ sleeping = {t}
    /\ timer' = IF ok THEN "TimeoutINIT" ELSE timer
    /\ state' = IF ok THEN t ELSE state
    /\ loop' = "select"
    /\ sleeping' = {}
    /\ requested' = {}
    /\ last' = [Event("Wake") EXCEPT !.target = {t}, !.signal = IF ok THEN {t} ELSE {},
                                     !.propose = {[Round |-> t.Round, ok |-> ok]}]
    /\ UNCHANGED <<stateTransit, stop, timerC, blockTimeBuffer, latestHeight,
                   svars, pvars, lvars>>

\* proposeOrWait after the sleep: proposeNewBallot(state.Round), which may fail,
\* timer.Reset(TimeoutINIT), setState, transitSignal.
ProposeWake(t, ok) ==
    /\ loop = "sleep"
    /\ sleeping = {t}
    /\ timer' = "TimeoutINIT"
    /\ state' = t
    /\ loop' = "select"
    /\ sleeping' = {}
    /\ requested' = {}
    /\ last' = [Event("Wake") EXCEPT !.target = {t}, !.signal = {t},
                                     !.propose = {[Round |-> t.Round, ok |-> ok]}]
    /\ UNCHANGED <<stateTransit, stop, timerC, blockTimeBuffer, latestHeight,
                   svars, pvars, lvars>>

\* proposeOrWait when another node is the proposer:
\* timer.Reset(sm.blockTimeBuffer + TimeoutINIT), setState, transitSignal.
ProposeWait(t) ==
    /\ loop = "select"
    /\ BagIn(t, stateTransit)
    /\ t.BallotState = "INIT"
    /\ stateTransit' = stateTransit (-) SetToBag({t})
    /\ timer' = "BufferPlusTimeoutINIT"
    /\ state' = t
    /\ requested' = {}
    /\ last' = [Event("Receive") EXCEPT !.target = {t}, !.signal = {t}]
    /\ UNCHANGED <<stop, timerC, loop, sleeping, blockTimeBuffer, latestHeight,
                   svars, pvars, lvars>>

\* case state := <-sm.stateTransit with StateSIGN or StateACCEPT: setState,
\* transitSignal, timer.Reset of the state's timeout.
ReceiveVote(t) ==
    /\ loop = "select"
    /\ BagIn(t, stateTransit)
    /\ t.BallotState \in {"SIGN", "ACCEPT"}
    /\ stateTransit' = stateTransit (-) SetToBag({t})
    /\ state' = t
    /\ timer' = IF t.BallotState = "SIGN" THEN "TimeoutSIGN" ELSE "TimeoutACCEPT"
    /\ requested' = {}
    /\ last' = [Event("Receive") EXCEPT !.target = {t}, !.signal = {t}]
    /\ UNCHANGED <<stop, timerC, loop, sleeping, blockTimeBuffer, latestHeight,
                   svars, pvars, lvars>>

\* case state := <-sm.stateTransit with StateALLCONFIRM: setState,
\* transitSignal, SetBlockTimeBuffer, NextHeight.
ReceiveALLCONFIRM(t) ==
    /\ loop = "select"
    /\ BagIn(t, stateTransit)
    /\ t.BallotState = "ALLCONFIRM"
    /\ LET target == NextHeight(t)
           rest == stateTransit (-) SetToBag({t})
       IN  /\ state' = t
           /\ blockTimeBuffer' \in SetBlockTimeBuffer
           /\ stateTransit' = IF TransitSends(t, target)
                              THEN rest (+) SetToBag({target}) ELSE rest
           /\ requested' = {[by |-> "NextHeight", target |-> target]}
           /\ last' = [Event("Receive") EXCEPT !.target = {t}, !.signal = {t},
                                               !.buffer = TRUE,
                                               !.sent = TransitSends(t, target)]
    /\ UNCHANGED <<stop, timer, timerC, loop, sleeping, latestHeight,
                   svars, pvars, lvars>>

\* case <-sm.stop with break for return: the loop goes back to its select.
ReturnBreaks ==
    /\ loop = "select"
    /\ stop > 0
    /\ stop' = stop - 1
    /\ loop' = "select"
    /\ last' = Event("Return")
    /\ UNCHANGED <<state, stateTransit, timer, timerC, sleeping, blockTimeBuffer,
                   latestHeight, requested,
                   svars, pvars, lvars>>

\* case <-sm.stop: return.
Return ==
    /\ loop = "select"
    /\ stop > 0
    /\ stop' = stop - 1
    /\ loop' = "returned"
    /\ last' = Event("Return")
    /\ UNCHANGED <<state, stateTransit, timer, timerC, sleeping, blockTimeBuffer,
                   latestHeight, requested,
                   svars, pvars, lvars>>


\* ------------------------------------------------------------ byte strings

\* The bytes of the characters storage keys are made of.
Chr(c) ==
    CASE c = "-" -> 45
      [] c = "a" -> 97
      [] c = "b" -> 98
      [] c = "c" -> 99
      [] c = "h" -> 104
      [] c = "o" -> 111
      [] c = "r" -> 114
      [] c = "s" -> 115
      [] c = "t" -> 116
      [] c = "x" -> 120
      [] c = "S" -> 83
      [] c = "T" -> 84
      [] c = "U" -> 85

Str(cs) == [k \in 1..Len(cs) |-> Chr(cs[k])]

\* common.BlockOperationPrefixHash, ...PrefixTxHash, ...PrefixSource
BlockOperationPrefixHash == Str(<<"b", "o", "-", "h", "-">>)
BlockOperationPrefixTxHash == Str(<<"b", "o", "-", "t", "x", "-">>)
BlockOperationPrefixSource == Str(<<"b", "o", "-", "s", "r", "c", "-">>)

\* common.EncodeUint64ToByteSlice: the 8 bytes of i, most significant first
\* (i < 2^32 here, so the first four are 0).
EncodeUint64ToByteSlice(i) ==
    [k \in 1..8 |-> IF k <= 4 THEN 0
                    ELSE (i \div (IF k = 5 THEN 16777216 ELSE IF k = 6 THEN 65536
                                  ELSE IF k = 7 THEN 256 ELSE 1)) % 256]

\* The operation hashes, transaction hashes, sources, heights and sequence
\* ids of the operations that get saved.
OpHashes == {Str(<<"a">>), Str(<<"b">>)}
TxHashes == {Str(<<"T">>)}
Sources == {Str(<<"S">>)}
Heights == {1, 256}
SequenceIDs == {0, 1}
\* common.GetUniqueIDFromUUID() returns one of these, never the same twice.
MaxUniqueID == 4
UniqueIDs == { <<48 + n>> : n \in 1..MaxUniqueID }
\* BlockOperation values in memory at one time.
MaxObjects == 2

\* ---------------------------------------------------------- block operations

\* NewBlockOperationKey(opHash, txHash)
NewBlockOperationKey(opHash, txHash) == opHash \o Str(<<"-">>) \o txHash

GetBlockOperationKey(hash) == BlockOperationPrefixHash \o hash

GetBlockOperationKeyPrefixTxHash(txHash) ==
    BlockOperationPrefixTxHash \o txHash \o Str(<<"-">>)

GetBlockOperationKeyPrefixSource(source) ==
    BlockOperationPrefixSource \o source \o Str(<<"-">>)

\* The transaction key with the unique id ahead of the height and sequence id.
NewBlockOperationTxHashKeyIDFirst(bo, uuid) ==
    GetBlockOperationKeyPrefixTxHash(bo.TxHash) \o uuid
        \o EncodeUint64ToByteSlice(bo.Height)
        \o EncodeUint64ToByteSlice(bo.SequenceID)

\* bo.NewBlockOperationTxHashKey(), uuid being the id GetUniqueIDFromUUID gives
NewBlockOperationTxHashKey(bo, uuid) ==
    GetBlockOperationKeyPrefixTxHash(bo.TxHash)
        \o EncodeUint64ToByteSlice(bo.Height)
        \o EncodeUint64ToByteSlice(bo.SequenceID) \o uuid

\* The source key made with the prefix of the transaction index.
NewBlockOperationSourceKeyTxPrefix(bo, uuid) ==
    GetBlockOperationKeyPrefixTxHash(bo.Source)
        \o EncodeUint64ToByteSlice(bo.Height)
        \o EncodeUint64ToByteSlice(bo.SequenceID) \o uuid

\* bo.NewBlockOperationSourceKey(), likewise
NewBlockOperationSourceKey(bo, uuid) ==
    GetBlockOperationKeyPrefixSource(bo.Source)
        \o EncodeUint64ToByteSlice(bo.Height)
        \o EncodeUint64ToByteSlice(bo.SequenceID) \o uuid

\* What Save stores: the exported fields of bo as a JSON object under the
\* primary key, bo.Hash as a JSON string under the index keys.
Fields(bo) ==
    [Hash |-> bo.Hash, OpHash |-> bo.OpHash, TxHash |-> bo.TxHash,
     Source |-> bo.Source, Height |-> bo.Height]

JSONObject(bo) == [json |-> "object", object |-> {Fields(bo)}, string |-> <<>>]

JSONString(str) == [json |-> "string", object |-> {}, string |-> str]

\* storage.LevelDBBackend: Has, the insertion New makes, Get.
Has(st, key) == \E e \in st : e.key = key

New(st, key, value) == st \cup {[key |-> key, value |-> value]}

Get(st, key) == { e.value : e \in { x \in st : x.key = key } }

HasPrefix(key, prefix) ==
    /\ Len(key) >= Len(prefix)
    /\ SubSeq(key, 1, Len(prefix)) = prefix

\* NewBlockOperationFromOperation
BlockOperation(opHash, txHash, source, height, sequenceID) ==
    [Hash |-> NewBlockOperationKey(opHash, txHash), OpHash |-> opHash,
     TxHash |-> txHash, Source |-> source, Height |-> height,
     SequenceID |-> sequenceID, isSaved |-> FALSE]

NewBlockOperationFromOperation(opHash, txHash, source, height, sequenceID) ==
    /\ Len(objs) < MaxObjects
    /\ objs' = Append(objs, BlockOperation(opHash, txHash, source, height, sequenceID))
    /\ result' = Call("New", Len(objs) + 1, "nil")
    /\ UNCHANGED <<storage, issued, succeeded, mvars, pvars, lvars>>

\* The event Save hands to observer.BlockOperationObserver.Trigger.
SavedEvent(bo) ==
    [event |-> "saved", source |-> bo.Source, hash |-> bo.Hash, txhash |-> bo.TxHash]

\* Save without the test of isSaved.
AlreadySavedIgnored(bo) == FALSE

\* Save without the test of the primary key.
BlockAlreadyExistsIgnored(st, bo) == FALSE

\* Save, first: the value has been saved, or came from GetBlockOperation.
AlreadySaved(bo) == bo.isSaved

\* Save, second: st.Has(key) finds the primary key of bo.
BlockAlreadyExists(st, bo) == Has(st, GetBlockOperationKey(bo.Hash))

\* bo.Save(st) on the object at index i.  fail names the call on the backend
\* that returns an error of its own ("none": no call does); st.New also
\* refuses a key that is there.
Save(i, fail) ==
    LET bo == objs[i]
        key == GetBlockOperationKey(bo.Hash)
    IN
    /\ i \in 1..Len(objs)
    /\ IF AlreadySaved(bo)
       THEN /\ result' = Call("Save", i, "AlreadySaved")
            /\ UNCHANGED <<storage, objs, issued, succeeded>>
       ELSE IF fail = "Has"
       THEN /\ result' = [Call("Save", i, "StorageError") EXCEPT !.has = 1]
            /\ UNCHANGED <<storage, objs, issued, succeeded>>
       ELSE IF BlockAlreadyExists(storage, bo)
       THEN /\ result' = [Call("Save", i, "BlockAlreadyExists") EXCEPT !.has = 1]
            /\ UNCHANGED <<storage, objs, issued, succeeded>>
       ELSE IF fail = "NewHash" \/ Has(storage, key)
       THEN /\ result' = [Call("Save", i, IF fail = "NewHash" THEN "StorageError"
                                          ELSE "StorageRecordAlreadyExists")
                             EXCEPT !.has = 1]
            /\ UNCHANGED <<storage, objs, issued, succeeded>>
       ELSE \E u1 \in UniqueIDs \ issued :
            LET st1 == New(storage, key, JSONObject(bo))
                txKey == NewBlockOperationTxHashKey(bo, u1)
            IN
            IF fail = "NewTxHash" \/ Has(st1, txKey)
            THEN /\ storage' = st1
                 /\ issued' = issued \cup {u1}
                 /\ result' = [Call("Save", i, IF fail = "NewTxHash" THEN "StorageError"
                                               ELSE "StorageRecordAlreadyExists")
                                  EXCEPT !.has = 1, !.written = {key}]
                 /\ UNCHANGED <<objs, succeeded>>
            ELSE \E u2 \in UniqueIDs \ (issued \cup {u1}) :
                 LET st2 == New(st1, txKey, JSONString(bo.Hash))
                     srcKey == NewBlockOperationSourceKey(bo, u2)
                 IN
                 IF fail = "NewSource" \/ Has(st2, srcKey)
                 THEN /\ storage' = st2
                      /\ issued' = issued \cup {u1, u2}
                      /\ result' = [Call("Save", i, IF fail = "NewSource"
                                                    THEN "StorageError"
                                                    ELSE "StorageRecordAlreadyExists")
                                       EXCEPT !.has = 1, !.written = {key, txKey}]
                      /\ UNCHANGED <<objs, succeeded>>
                 ELSE /\ storage' = New(st2, srcKey, JSONString(bo.Hash))
                      /\ issued' = issued \cup {u1, u2}
                      /\ objs' = [objs EXCEPT ![i].isSaved = TRUE]
                      /\ succeeded' = succeeded \cup {i}
                      /\ result' = [Call("Save", i, "nil") EXCEPT
                                       !.has = 1, !.written = {key, txKey, srcKey},
                                       !.events = {SavedEvent(bo)}]
    /\ UNCHANGED <<mvars, pvars, lvars>>

\* ExistsBlockOperation(st, hash)
ExistsBlockOperation(st, hash) == Has(st, GetBlockOperationKey(hash))

Exists(hash) ==
    /\ result' = [Call("Exists", 0, IF ExistsBlockOperation(storage, hash)
                                    THEN "true" ELSE "false") EXCEPT !.has = 1]
    /\ UNCHANGED <<storage, objs, issued, succeeded, mvars, pvars, lvars>>

\* GetBlockOperation(st, hash): the stored fields with isSaved set; the
\* transaction, and so its SequenceID, is not stored and comes back zero.
GetBlockOperation(hash) ==
    LET found == Get(storage, GetBlockOperationKey(hash))
    IN
    /\ IF found = {}
       THEN /\ result' = Call("Get", 0, "NotFound")
            /\ UNCHANGED objs
       ELSE \E v \in found : \E f \in v.object :
            /\ Len(objs) < MaxObjects
            /\ objs' = Append(objs, [Hash |-> f.Hash, OpHash |-> f.OpHash,
                                     TxHash |-> f.TxHash, Source |-> f.Source,
                                     Height |-> f.Height, SequenceID |-> 0,
                                     isSaved |-> TRUE])
            /\ result' = Call("Get", Len(objs) + 1, "nil")
    /\ UNCHANGED <<storage, issued, succeeded, mvars, pvars, lvars>>

Hashes == { NewBlockOperationKey(o, t) : o \in OpHashes, t \in TxHashes }

\* The order of keys in LevelDB: bytewise, a proper prefix first.
BytesLess(a, b) ==
    \/ \E k \in 1..Len(a) :
          /\ k <= Len(b)
          /\ a[k] < b[k]
          /\ \A j \in 1..(k - 1) : a[j] = b[j]
    \/ Len(a) < Len(b) /\ \A j \in 1..Len(a) : a[j] = b[j]

\* The entries in the order of their keys.
RECURSIVE InKeyOrder(_)
InKeyOrder(entries) ==
    IF entries = {} THEN <<>>
    ELSE LET first == CHOOSE e \in entries :
                          \A x \in entries \ {e} : BytesLess(e.key, x.key)
         IN  <<first>> \o InKeyOrder(entries \ {first})

Reversed(seq) == [k \in 1..Len(seq) |-> seq[Len(seq) + 1 - k]]

\* st.GetIterator(prefix, options): the entries under the prefix in key
\* order, or in the opposite order with options.Reverse.
GetIterator(st, prefix, reverse) ==
    LET items == InKeyOrder({ e \in st : HasPrefix(e.key, prefix) })
    IN  IF reverse THEN Reversed(items) ELSE items

\* LoadBlockOperationsInsideIterator called until it reports no next item:
\* each item's value is a hash, GetBlockOperation(st, hash) is yielded; the
\* first hash that is not found ends the iteration.
RECURSIVE LoadBlockOperationsInsideIterator(_, _)
LoadBlockOperationsInsideIterator(st, items) ==
    IF items = <<>> THEN <<>>
    ELSE LET hash == Head(items).value.string
         IN  IF Get(st, GetBlockOperationKey(hash)) = {} THEN <<>>
             ELSE <<hash>> \o LoadBlockOperationsInsideIterator(st, Tail(items))

GetBlockOperationsByTxHash(txHash, reverse) ==
    /\ result' = [Call("ByTxHash", 0, IF reverse THEN "reverse" ELSE "ascending")
                     EXCEPT !.arg = txHash,
                            !.items = LoadBlockOperationsInsideIterator(storage,
                                GetIterator(storage,
                                    GetBlockOperationKeyPrefixTxHash(txHash), reverse))]
    /\ UNCHANGED <<storage, objs, issued, succeeded, mvars, pvars, lvars>>

GetBlockOperationsBySource(source, reverse) ==
    /\ result' = [Call("BySource", 0, IF reverse THEN "reverse" ELSE "ascending")
                     EXCEPT !.arg = source,
                            !.items = LoadBlockOperationsInsideIterator(storage,
                                GetIterator(storage,
                                    GetBlockOperationKeyPrefixSource(source), reverse))]
    /\ UNCHANGED <<storage, objs, issued, succeeded, mvars, pvars, lvars>>

\* --------------------------------------------------------------- the lock

\* The accesses to the fields of sm: the field, whether it is read or
\* written, and the mode in which sm's RWMutex is held meanwhile.
\*   State, TransitISAACState      RLock, read sm.state
\*   setState, setBallotState      Lock, write sm.state
\*   SetTransitSignal              Lock, write sm.transitSignal
\*   sm.transitSignal(...)         no lock, read sm.transitSignal
\*   SetBlockTimeBuffer            no lock, write sm.blockTimeBuffer
\*   proposeOrWait                 no lock, read sm.blockTimeBuffer
Field(op) ==
    CASE op \in {"State", "TransitISAACState", "setState", "setBallotState"} -> "state"
      [] op \in {"SetTransitSignal", "transitSignal"} -> "transitSignal"
      [] op \in {"SetBlockTimeBuffer", "proposeOrWait"} -> "blockTimeBuffer"

Kind(op) ==
    IF op \in {"setState", "setBallotState", "SetTransitSignal", "SetBlockTimeBuffer"}
    THEN "write" ELSE "read"

Mode(op) ==
    CASE op \in {"State", "TransitISAACState"} -> "RLock"
      [] op \in {"setState", "setBallotState", "SetTransitSignal"} -> "Lock"
      [] OTHER -> "none"

\* What the loop does, and what the exported methods let any goroutine do.
OpsOf(g) ==
    IF g = "loop"
    THEN {"State", "setState", "setBallotState", "transitSignal", "SetBlockTimeBuffer",
          "proposeOrWait"}
    ELSE {"State", "TransitISAACState", "SetTransitSignal", "SetBlockTimeBuffer"}

\* A goroutine comes to an access.
Begin(g, op) ==
    /\ running[g].pc = "idle"
    /\ running' = [running EXCEPT ![g] =
                      [op |-> op, pc |-> IF Mode(op) = "none" THEN "ready" ELSE "wait"]]
    /\ UNCHANGED <<mutex, mvars, svars, pvars>>

\* sm.Lock() / sm.RLock() returns.
Acquire(g) ==
    /\ running[g].pc = "wait"
    /\ IF Mode(running[g].op) = "Lock"
       THEN /\ mutex.writer = {} /\ mutex.readers = {}
            /\ mutex' = [mutex EXCEPT !.writer = {g}]
       ELSE /\ mutex.writer = {}
            /\ mutex' = [mutex EXCEPT !.readers = @ \cup {g}]
    /\ running' = [running EXCEPT ![g].pc = "ready"]
    /\ UNCHANGED <<mvars, svars, pvars>>

\* The read or the write of the field starts, and ends.
Access(g) ==
    /\ running[g].pc = "ready"
    /\ running' = [running EXCEPT ![g].pc = "access"]
    /\ UNCHANGED <<mutex, mvars, svars, pvars>>

Finish(g) ==
    /\ running[g].pc = "access"
    /\ running' = [running EXCEPT ![g] =
                      IF Mode(running[g].op) = "none"
                      THEN [op |-> "none", pc |-> "idle"]
                      ELSE [op |-> running[g].op, pc |-> "release"]]
    /\ UNCHANGED <<mutex, mvars, svars, pvars>>

\* sm.Unlock() / sm.RUnlock().
Release(g) ==
    /\ running[g].pc = "release"
    /\ mutex' = [writer |-> mutex.writer \ {g}, readers |-> mutex.readers \ {g}]
    /\ running' = [running EXCEPT ![g] = [op |-> "none", pc |-> "idle"]]
    /\ UNCHANGED <<mvars, svars, pvars>>

LockNext ==
    \/ \E g \in Goroutines : \E op \in OpsOf(g) : Begin(g, op)
    \/ \E g \in Goroutines : Acquire(g)
    \/ \E g \in Goroutines : Access(g)
    \/ \E g \in Goroutines : Finish(g)
    \/ \E g \in Goroutines : Release(g)

\* The goroutines that use the manager's fields.
LockSpec == Init /\ [][LockNext]_vars

\* The arguments the pacer's functions are called with: goals, averages
\* around each goal by less than, exactly and more than epsilon (and a
\* negative one), times since the proposal, deltas; times since genesis and
\* block heights 0..MaxSampleHeight.
MaxSampleHeight == 3
Goals == {1000, 5000}
AverageOffsets == {-6000, -1000, -51, -50, -49, -1, 0, 1, 20, 49, 50, 51, 1000}
UntilNows == {0, 1000, 4000, 5000, 7000}
Deltas == {0, 1000}
SinceGenesis == {0, 1, 4999, 5000, 10000}

\* A call of calculateBlockTimeBuffer.
CallBlockTimeBuffer(g, a, u, d) ==
    /\ input' = [f |-> "calculateBlockTimeBuffer", goal |-> g, average |-> a,
                 untilNow |-> u, delta |-> d]
    /\ output' = {calculateBlockTimeBuffer(g, a, u, d)}
    /\ UNCHANGED <<mvars, svars, lvars>>

\* A call of calculateAverageBlockTime when time.Now().Sub(genesis) is s.
CallAverageBlockTime(s, h) ==
    /\ input' = [f |-> "calculateAverageBlockTime", sinceGenesis |-> s,
                 blockHeight |-> h]
    /\ output' = {calculateAverageBlockTime(s, h)}
    /\ UNCHANGED <<mvars, svars, lvars>>

PacerNext ==
    \/ \E g \in Goals, o \in AverageOffsets, u \in UntilNows, d \in Deltas :
          CallBlockTimeBuffer(g, g + o, u, d)
    \/ \E s \in SinceGenesis, h \in 0..MaxSampleHeight : CallAverageBlockTime(s, h)

\* The callers of the pacer's functions.
PacerSpec == Init /\ [][PacerNext]_vars

Next ==
    \/ \E t \in ExternalTargets : TransitISAACState(t)
    \/ Stop
    \/ TimerFires
    \/ ConfirmBlock
    \/ TimeoutACCEPT
    \/ TimeoutExpire
    \/ \E t \in DOMAIN stateTransit : ProposeSleep(t)
    \/ \E t \in Targets, ok \in BOOLEAN : ProposeWake(t, ok)
    \/ \E t \in DOMAIN stateTransit : ProposeWait(t)
    \/ \E t \in DOMAIN stateTransit : ReceiveVote(t)
    \/ \E t \in DOMAIN stateTransit : ReceiveALLCONFIRM(t)
    \/ Return

\* The event loop of the state manager and its callers.
Spec == Init /\ [][Next]_vars

\* A step of the goroutine of Start(): a case of its select, or the end of
\* the proposer's sleep.
LoopStep ==
    \/ TimeoutACCEPT
    \/ TimeoutExpire
    \/ \E t \in DOMAIN stateTransit : ProposeSleep(t)
    \/ \E t \in Targets, ok \in BOOLEAN : ProposeWake(t, ok)
    \/ \E t \in DOMAIN stateTransit : ProposeWait(t)
    \/ \E t \in DOMAIN stateTransit : ReceiveVote(t)
    \/ \E t \in DOMAIN stateTransit : ReceiveALLCONFIRM(t)

\* The manager while Stop() is not called.
RunNext ==
    \/ \E t \in ExternalTargets : TransitISAACState(t)
    \/ TimerFires
    \/ ConfirmBlock
    \/ LoopStep

\* An armed timer fires in the end, and the goroutine of the loop keeps
\* running: it takes a step whenever one stays possible (a ready case of
\* the select with its sender scheduled, the sleep ending).
FairSpec ==
    /\ Init
    /\ [][RunNext]_vars
    /\ WF_vars(TimerFires)
    /\ WF_vars(LoopStep)

StoreNext ==
    \/ \E o \in OpHashes, t \in TxHashes, s \in Sources, h \in Heights,
          q \in SequenceIDs : NewBlockOperationFromOperation(o, t, s, h, q)
    \/ \E i \in 1..MaxObjects,
          fail \in {"none", "Has", "NewHash", "NewTxHash", "NewSource"} : Save(i, fail)
    \/ \E hash \in Hashes : Exists(hash)
    \/ \E hash \in Hashes : GetBlockOperation(hash)
    \/ \E t \in TxHashes, reverse \in BOOLEAN : GetBlockOperationsByTxHash(t, reverse)
    \/ \E src \in Sources, reverse \in BOOLEAN : GetBlockOperationsBySource(src, reverse)

\* The callers of the block operations.
StoreSpec == Init /\ [][StoreNext]_vars

\* ------------------------------------------------------------------ claims

\* The order on (Height, Round, BallotState): a is before b.
Before(a, b) ==
    \/ a.Height < b.Height
    \/ a.Height = b.Height /\ a.Round < b.Round
    \/ a.Height = b.Height /\ a.Round = b.Round /\ Ord(a.BallotState) < Ord(b.BallotState)

\* The steps of the loop at its select, and those in which it adopts a state.
SelectOps == {"Timeout", "Receive", "Sleep", "Return"}
AdoptOps == {"Receive", "Wake"}

\* C1: the current state never goes back: each step leaves it as it is or
\* moves it to a state that is later in the order on (Height, Round,
\* BallotState).
StateNeverRegresses == [][state' = state \/ Before(state, state')]_vars

\* C2: a TransitISAACState call whose target is not later than the current
\* state sends nothing and changes neither the state, the timer nor the
\* channel, and signals nothing; a call whose target is later puts exactly
\* that target on the channel; the loop adopts the target it receives.
LateTransitionDropped ==
    [][ /\ (last'.op = "Transit" /\ ~last'.later) =>
              /\ ~last'.sent
              /\ last'.signal = {}
              /\ UNCHANGED <<state, stateTransit, stop, timer, timerC, loop,
                             sleeping, blockTimeBuffer>>
        /\ (last'.op = "Transit" /\ last'.later) =>
              /\ last'.sent
              /\ \E t \in Targets :
                    /\ Before(state, t)
                    /\ stateTransit' = stateTransit (+) SetToBag({t})
              /\ UNCHANGED <<state, stop, timer, timerC, loop, sleeping>>
        /\ (last'.op = "Transit" /\ stateTransit' # stateTransit) => last'.later
        /\ last'.op = "Receive" =>
              \E t \in BagToSet(stateTransit) :
                    state' = t /\ last'.target = {t} /\ last'.signal = {t}
        /\ last'.op = "Sleep" =>
              \E t \in BagToSet(stateTransit) :
                    /\ sleeping' = {t}
                    /\ stateTransit' = stateTransit (-) SetToBag({t})
        /\ last'.op = "Wake" => state' \in sleeping /\ last'.signal = {state'}
      ]_vars

\* C2, witness: at (0, 1, SIGN) a call has just been dropped.
LateTransitionDroppedWitness ==
    /\ last.op = "Transit"
    /\ ~last.later
    /\ ~last.sent
    /\ state = ISAACState(0, 1, "SIGN")
    /\ stateTransit = EmptyBag

\* C3: a timeout handled in (H, R, INIT) or (H, R, SIGN) broadcasts one
\* expiration ballot made from the state before the step (Round R, the height
\* of the latest block, an EXP vote for the following ballot state), moves the
\* state to (H, R, following state), resets the timer to that state's timeout
\* and signals the new state.
NonAcceptTimeout ==
    [][ (last'.op = "Timeout" /\ state.BallotState \in {"INIT", "SIGN"}) =>
          LET successor == IF state.BallotState = "INIT" THEN "SIGN" ELSE "ACCEPT"
          IN  /\ last'.ballot = {[Round |-> state.Round, Height |-> latestHeight,
                                  VoteState |-> successor, Vote |-> "EXP"]}
              /\ state' = ISAACState(state.Height, state.Round, successor)
              /\ timer' = IF successor = "SIGN" THEN "TimeoutSIGN" ELSE "TimeoutACCEPT"
              /\ last'.signal = {state'}
              /\ UNCHANGED <<stateTransit, blockTimeBuffer, loop>>
      ]_vars

\* C3, witness: the timeout of (0, 0, SIGN) has just been handled.
NonAcceptTimeoutWitness ==
    /\ last.op = "Timeout"
    /\ state = ISAACState(0, 0, "ACCEPT")
    /\ timer = "TimeoutACCEPT"
    /\ \E b \in last.ballot : b.VoteState = "ACCEPT" /\ b.Round = 0

\* C4 as stated: after a timeout handled in (H, R, ACCEPT), the next state the
\* loop adopts is (H, R+1, INIT).
AcceptTimeoutAdoptsNextRound ==
    [][ ((\E q \in requested : q.by = "IncreaseRound") /\ last'.op \in AdoptOps) =>
          state' \in { q.target : q \in requested }
      ]_vars

\* C4 as amended: a timeout handled in (H, R, ACCEPT) broadcasts no ballot,
\* signals nothing, recomputes blockTimeBuffer, leaves the state and the timer
\* as they are and puts (H, R+1, INIT) on the channel; it is what the loop
\* receives next when nothing else waits on the channel.
AcceptTimeoutRequestsNextRound ==
    [][ /\ (last'.op = "Timeout" /\ state.BallotState = "ACCEPT") =>
              /\ last'.ballot = {}
              /\ last'.signal = {}
              /\ last'.buffer
              /\ blockTimeBuffer' \in SetBlockTimeBuffer
              /\ state' = state
              /\ timer' = timer
              /\ stateTransit' = stateTransit (+)
                    SetToBag({ISAACState(state.Height, state.Round + 1, "INIT")})
        /\ \A q \in requested :
              ( /\ q.by = "IncreaseRound"
                /\ last'.op \in {"Receive", "Sleep"}
                /\ BagToSet(stateTransit) = {q.target} ) =>
              last'.target = {q.target}
      ]_vars

\* C4, witness: the timeout of (0, 0, ACCEPT) has just been handled.
AcceptTimeoutWitness ==
    /\ last.op = "Timeout"
    /\ last.buffer
    /\ state = ISAACState(0, 0, "ACCEPT")
    /\ BagIn(ISAACState(0, 1, "INIT"), stateTransit)

\* C5: once the loop has adopted (H, R, ALLCONFIRM), the next thing it does
\* to its state is to adopt (H+1, 0, INIT): it adopts no other state and
\* handles no timeout before.
AllConfirmEntersNextHeight ==
    [][ ((\E q \in requested : q.by = "NextHeight")
            /\ last'.op \in AdoptOps \cup {"Timeout"}) =>
          /\ last'.op \in AdoptOps
          /\ state' \in { q.target : q \in requested }
      ]_vars

\* C6: with a stop signal waiting, the step the loop takes at its select is
\* the return, whatever else is ready: it handles no timeout and receives no
\* transition.
StopPreemptsSelect ==
    [][ (stop > 0 /\ loop = "select" /\ last'.op \in SelectOps) =>
          last'.op = "Return"
      ]_vars

\* C7: observing the stop signal makes the loop return, and once it has
\* returned the state does not change, nothing is signalled, proposed or
\* broadcast, and nothing is taken from the channel or the timer.
TimerSafety ==
    [][ /\ last'.op = "Return" => loop' = "returned"
        /\ loop = "returned" =>
              /\ loop' = "returned"
              /\ state' = state
              /\ blockTimeBuffer' = blockTimeBuffer
              /\ last'.signal = {}
              /\ last'.ballot = {}
              /\ last'.propose = {}
              /\ last'.op \in {"Transit", "StopCall", "Fire", "Confirm"}
              /\ \A t \in BagToSet(stateTransit) :
                    CopiesIn(t, stateTransit') >= CopiesIn(t, stateTransit)
              /\ timerC => timerC'
      ]_vars

\* C7, witness: after the return a timer tick and a transition wait unhandled.
TimerSafetyWitness ==
    /\ loop = "returned"
    /\ last.op = "Fire"
    /\ timerC
    /\ BagIn(ISAACState(0, 0, "SIGN"), stateTransit)

\* The entries of an index, under a prefix, whose value is the hash.
IndexEntries(prefix, hash) ==
    { e \in storage : HasPrefix(e.key, prefix) /\ e.value = JSONString(hash) }

\* The objects, other than the one at index i, whose Save has returned nil
\* and whose Hash is that of the object at index i.
SavedBefore(i) == { j \in succeeded \ {i} : objs[j].Hash = objs[i].Hash }

\* C8: for every operation whose Save returned nil, the primary key of its
\* Hash is in the store, and exactly one entry under the prefix of its TxHash
\* and exactly one entry under the prefix of its Source have its Hash as
\* their value.
IndexConsistency ==
    \A i \in succeeded :
        LET op == objs[i]
        IN  /\ ExistsBlockOperation(storage, op.Hash)
            /\ Cardinality(IndexEntries(GetBlockOperationKeyPrefixTxHash(op.TxHash),
                                        op.Hash)) = 1
            /\ Cardinality(IndexEntries(GetBlockOperationKeyPrefixSource(op.Source),
                                        op.Hash)) = 1

\* C8, witness: two operations of the same transaction and source have been
\* saved, the second one just now.
IndexConsistencyWitness ==
    /\ result.op = "Save"
    /\ result.ret = "nil"
    /\ succeeded = {1, 2}
    /\ objs[1].TxHash = objs[2].TxHash
    /\ objs[1].Hash # objs[2].Hash

\* C9 as stated: Save of another object with the Hash of a saved one returns
\* BlockAlreadyExists and leaves the store as it was.
SecondSaveBlockAlreadyExists ==
    [][ (result'.op = "Save" /\ SavedBefore(result'.obj) # {}) =>
          /\ result'.ret = "BlockAlreadyExists"
          /\ storage' = storage
      ]_vars

\* C9 as amended: Save of another object with the Hash of a saved one leaves
\* the store as it was and returns an error: AlreadySaved if the object's
\* isSaved is set, else the error of st.Has if that call fails, else
\* BlockAlreadyExists; and no two entries of the store have the same key.
SecondSaveFails ==
    /\ [][ (result'.op = "Save" /\ SavedBefore(result'.obj) # {}) =>
             /\ storage' = storage
             /\ objs' = objs
             /\ result'.written = {}
             /\ result'.events = {}
             /\ result'.ret \in {"AlreadySaved", "StorageError", "BlockAlreadyExists"}
             /\ result'.ret = "AlreadySaved" <=> objs[result'.obj].isSaved
             /\ result'.ret = "StorageError" => result'.has = 1
         ]_vars
    /\ [](\A e1, e2 \in storage : e1.key = e2.key => e1 = e2)

\* C9, witness: Save of a second object made with the Hash of a saved one has
\* just returned BlockAlreadyExists.
SecondSaveFailsWitness ==
    /\ result.op = "Save"
    /\ result.ret = "BlockAlreadyExists"
    /\ SavedBefore(result.obj) # {}
    /\ ~objs[result.obj].isSaved

\* C10: Save on an object whose isSaved is set returns AlreadySaved, asks the
\* store nothing, writes nothing and triggers no event; isSaved gets set only
\* by a Save that returns nil, on its object, and by a GetBlockOperation that
\* finds the record, on the object it returns.
SaveFlagIdempotence ==
    [][ /\ (result'.op = "Save" /\ objs[result'.obj].isSaved) =>
              /\ result'.ret = "AlreadySaved"
              /\ result'.has = 0
              /\ result'.written = {}
              /\ result'.events = {}
              /\ UNCHANGED <<storage, objs, issued, succeeded>>
        /\ \A i \in 1..Len(objs') :
              (objs'[i].isSaved /\ (i > Len(objs) \/ ~objs[i].isSaved)) =>
                  /\ result'.obj = i
                  /\ result'.ret = "nil"
                  /\ \/ result'.op = "Save" /\ i <= Len(objs)
                     \/ result'.op = "Get" /\ i = Len(objs) + 1
      ]_vars

\* C10, witness: Save on an object that GetBlockOperation returned has just
\* returned AlreadySaved.
SaveFlagIdempotenceWitness ==
    /\ result.op = "Save"
    /\ result.ret = "AlreadySaved"
    /\ result.obj \notin succeeded
    /\ objs[result.obj].isSaved

\* (Height, SequenceID) of a is before that of b.
HeightSequenceLess(a, b) ==
    \/ a.Height < b.Height
    \/ a.Height = b.Height /\ a.SequenceID < b.SequenceID

\* Where the hash is in what the iterator yielded; 0 if it is not there.
Position(items, hash) ==
    IF \E k \in 1..Len(items) : items[k] = hash
    THEN CHOOSE k \in 1..Len(items) : items[k] = hash
    ELSE 0

\* C11: when GetBlockOperationsByTxHash (GetBlockOperationsBySource) has
\* iterated in ascending mode, any two saved operations a and b of that
\* TxHash (Source) with (a.Height, a.SequenceID) before (b.Height,
\* b.SequenceID) have both been yielded, a before b.
IteratorOrdering ==
    \A i, j \in succeeded :
        LET a == objs[i]
            b == objs[j]
        IN  ( /\ result.op \in {"ByTxHash", "BySource"}
              /\ result.ret = "ascending"
              /\ result.arg = (IF result.op = "ByTxHash" THEN a.TxHash ELSE a.Source)
              /\ result.arg = (IF result.op = "ByTxHash" THEN b.TxHash ELSE b.Source)
              /\ HeightSequenceLess(a, b) ) =>
            /\ Position(result.items, a.Hash) > 0
            /\ Position(result.items, a.Hash) < Position(result.items, b.Hash)

\* C11, witness: the operation at height 1 was saved after the one at height
\* 256, and the iterator over the transaction's operations yielded it first.
IteratorOrderingWitness ==
    /\ result.op = "ByTxHash"
    /\ result.ret = "ascending"
    /\ succeeded = {1, 2}
    /\ objs[1].Height = 256
    /\ objs[2].Height = 1
    /\ result.items = <<objs[2].Hash, objs[1].Hash>>

Abs(x) == IF x < 0 THEN -x ELSE x

Max(x, y) == IF x >= y THEN x ELSE y

\* C12: calculateBlockTimeBuffer returns max(0, x), x being goal - untilNow
\* when average is within 50 ms of goal, goal - delta - untilNow when average
\* is above goal by 50 ms or more, goal + delta - untilNow when it is below by
\* 50 ms or more; it is never negative, and it is goal when average = goal
\* and untilNow = 0.
PacerRule ==
    input.f = "calculateBlockTimeBuffer" =>
        LET x == IF Abs(input.average - input.goal) < 50
                 THEN input.goal - input.untilNow
                 ELSE IF input.average > input.goal
                 THEN input.goal - input.delta - input.untilNow
                 ELSE input.goal + input.delta - input.untilNow
        IN  /\ output = {Max(0, x)}
            /\ \A b \in output : b >= 0
            /\ (input.average = input.goal /\ input.untilNow = 0) =>
                  output = {input.goal}

\* C12, witness: goal 5 s, average 5.02 s, 1 s since the proposal, delta 1 s
\* give 4 s.
PacerRuleWitness ==
    /\ input.f = "calculateBlockTimeBuffer"
    /\ input.goal = 5000
    /\ input.average = 5020
    /\ input.untilNow = 1000
    /\ input.delta = 1000
    /\ output = {4000}

\* C18: calculateAverageBlockTime returns sinceGenesis / max(1, height - 1):
\* sinceGenesis at heights 0 and 1; the result is never negative and never
\* more than sinceGenesis.
AverageBlockTimeRule ==
    input.f = "calculateAverageBlockTime" =>
        /\ output = {input.sinceGenesis \div Max(1, input.blockHeight - 1)}
        /\ \A a \in output : 0 <= a /\ a <= input.sinceGenesis

\* C13: a Save that returns the error of one of its calls on the store has
\* written nothing and leaves isSaved unset; and whenever the primary key of
\* a hash is in the store, an entry of each index has that hash as its value.
SaveAllOrNothing ==
    /\ [][ (result'.op = "Save" /\ result'.ret = "StorageError") =>
             /\ result'.written = {}
             /\ storage' = storage
             /\ ~objs'[result'.obj].isSaved
         ]_vars
    /\ [](\A hash \in Hashes :
            ExistsBlockOperation(storage, hash) =>
                /\ \E e \in storage :
                      /\ HasPrefix(e.key, BlockOperationPrefixTxHash)
                      /\ e.value = JSONString(hash)
                /\ \E e \in storage :
                      /\ HasPrefix(e.key, BlockOperationPrefixSource)
                      /\ e.value = JSONString(hash))

\* C14: when the proposer's sleep ends, whether proposeNewBallot fails or
\* not, the loop adopts the (H, R, INIT) it received, signals it, resets the
\* timer to TimeoutINIT and is back at its select; the timer can then fire,
\* the loop can handle the tick, and a tick handled in (H, R, INIT)
\* broadcasts the EXP ballot of round R for the state after INIT.
ProposeFailureContinues ==
    /\ [][ last'.op = "Wake" =>
             \E t \in sleeping :
                /\ t.BallotState = "INIT"
                /\ state' = t
                /\ last'.signal = {t}
                /\ timer' = "TimeoutINIT"
                /\ loop' = "select"
                /\ \E ok \in BOOLEAN : last'.propose = {[Round |-> t.Round, ok |-> ok]}
         ]_vars
    /\ [](last.op = "Wake" => ENABLED TimerFires)
    /\ []((loop = "select" /\ timerC /\ state.BallotState = "INIT") =>
             ENABLED TimeoutExpire)
    /\ [][ (last'.op = "Timeout" /\ state.BallotState = "INIT") =>
             /\ last'.ballot = {[Round |-> state.Round, Height |-> latestHeight,
                                 VoteState |-> "SIGN", Vote |-> "EXP"]}
             /\ state' = ISAACState(state.Height, state.Round, "SIGN")
         ]_vars

\* C14, witness: proposeNewBallot has just failed for (0, 1, INIT), which is
\* adopted with the timer at TimeoutINIT.
ProposeFailureContinuesWitness ==
    /\ last.op = "Wake"
    /\ last.propose = {[Round |-> 1, ok |-> FALSE]}
    /\ state = ISAACState(0, 1, "INIT")
    /\ timer = "TimeoutINIT"
    /\ loop = "select"

\* C15: when Stop() has just been called with the loop in the proposer's
\* sleep, the loop does not go on to proposeNewBallot and does not adopt the
\* state it holds: the next step does not propose or change the state.
SleepCancelledByStop ==
    [][ (last.op = "StopCall" /\ loop = "sleep" /\ stop > 0) =>
          /\ last'.op # "Wake"
          /\ last'.propose = {}
          /\ state' = state
      ]_vars

\* C16: the loop adopts a state at most once; in particular two successive
\* steps never adopt, and signal, the same state.
NoDoubleTransition ==
    [][ (last.op \in AdoptOps /\ last'.op \in AdoptOps) =>
          last'.signal # last.signal
      ]_vars

\* C19: the loop never handles a timer tick while the current ballot state
\* is ALLCONFIRM, so it broadcasts no expiration ballot made from an
\* ALLCONFIRM state.
NoTimeoutInALLCONFIRM ==
    [][ last'.op = "Timeout" =>
          /\ state.BallotState # "ALLCONFIRM"
          /\ \A b \in last'.ballot : b.VoteState # BallotStateNext("ALLCONFIRM")
      ]_vars

\* The goroutines in the middle of an access to the field.
Accessing(field) ==
    { g \in Goroutines : running[g].pc = "access" /\ Field(running[g].op) = field }

\* C20: every read of sm.state, sm.blockTimeBuffer and sm.transitSignal is
\* made holding the lock for reading or writing, every write holding it for
\* writing; so no write of a field overlaps another access to it.
SharedStateLockGuarded ==
    /\ \A g \in Goroutines :
          running[g].pc = "access" =>
              IF Kind(running[g].op) = "write"
              THEN g \in mutex.writer
              ELSE g \in mutex.writer \cup mutex.readers
    /\ \A field \in {"state", "blockTimeBuffer", "transitSignal"} :
          \A g, h \in Accessing(field) :
              (g # h) => (Kind(running[g].op) = "read" /\ Kind(running[h].op) = "read")

\* The states the loop leaves by itself within the bounds: in
\* (H, MaxRound, ACCEPT) the next round is out of bounds.
LeavesWithinBounds(s) == ~(s.Round = MaxRound /\ s.BallotState = "ACCEPT")

\* C17: while Stop() is not called, the loop at its select always has its
\* timer armed, a tick to handle or a transition waiting; the loop changes
\* its state again and again, unless it stays for ever in a state whose
\* successor is out of bounds; and by its timeouts alone it goes
\* from INIT to SIGN, from SIGN to ACCEPT, and from ACCEPT it requests
\* (Round+1, INIT), which it adopts when nothing else waits.
NoTerminalState ==
    /\ [](loop = "select" =>
            (timer # "off" \/ timerC \/ stateTransit # EmptyBag))
    /\ ([]<><<state' # state>>_vars) \/ (<>[](~LeavesWithinBounds(state)))
    /\ [][ /\ (last'.op = "Timeout" /\ state.BallotState = "INIT") =>
                 state' = ISAACState(state.Height, state.Round, "SIGN")
           /\ (last'.op = "Timeout" /\ state.BallotState = "SIGN") =>
                 state' = ISAACState(state.Height, state.Round, "ACCEPT")
           /\ (last'.op = "Timeout" /\ state.BallotState = "ACCEPT") =>
                 BagIn(ISAACState(state.Height, state.Round + 1, "INIT"), stateTransit')
           /\ ( /\ last'.op \in AdoptOps
                /\ \E q \in requested :
                      BagToSet(stateTransit) \cup sleeping = {q.target} ) =>
                 state' \in { q.target : q \in requested }
         ]_vars

\* C17, witness: in round 1 of height 0 the loop has just adopted
\* (0, 1, INIT), the state after the timeouts of round 0; nothing else waits
\* and its timer is armed again.
NoTerminalStateWitness ==
    /\ last.op \in AdoptOps
    /\ state = ISAACState(0, 1, "INIT")
    /\ timer # "off"
    /\ latestHeight = GenesisBlockHeight
    /\ stateTransit = EmptyBag

====
